---- MODULE Spec2Model ----
(***************************************************************************)
(* Model of the CharLCD driver (src/LCD.py): a HD44780 character display   *)
(* driven over a 4-bit GPIO bus.  Every public method is one action; the   *)
(* pin writes and sleeps a call performs are recorded, in program order,   *)
(* in `events`, and the lcd_byte calls it makes in `sent`.                 *)
(***************************************************************************)
EXTENDS Integers, Sequences, FiniteSets, TLC

VARIABLES
    constructed,     \* FALSE until __init__ has run
    cols,            \* self.cols
    rows,            \* self.rows
    displaycontrol,  \* self.displaycontrol
    pins,            \* level of the six output lines rs, en, d4..d7
    lastOp,          \* the most recent call: [name, args]
    sent,            \* the lcd_byte calls <<bits, mode>> made by the most recent call
    events,          \* the pin writes and sleeps <<target, value>> of the most recent call
    err,             \* the exception the most recent call raised, or "none"
    trace,           \* calls since construction, recorded only by SpecControl
    lastControl,     \* history: the last display-control command sent, -1 before any
    enBefore         \* history: the level of the enable line when the most recent call began

vars ==
    <<constructed, cols, rows, displaycontrol, pins, lastOp, sent, events, err, trace,
      lastControl, enBefore>>

---------------------------------------------------------------------------
(* Class constants, src/LCD.py:15-46.  Delays are in microseconds.         *)

LCD_CHR == 1
LCD_CMD == 0

LCD_LINES_Swapped == <<128, 148, 192, 212>>  \* lines 1 and 2 exchanged
LCD_LINES == <<128, 192, 148, 212>>          \* (0x80, 0xC0, 0x94, 0xD4)
\* LCD_ROW_OFFSETS with the entries of rows 1 and 2 exchanged
LCD_ROW_OFFSETS_Swapped == <<0, 20, 64, 84>>
LCD_ROW_OFFSETS == <<0, 64, 20, 84>>         \* (0x00, 0x40, 0x14, 0x54)

LCD_CLEAR == 1
LCD_CURSORSHIFT == 16
LCD_DISPLAYCONTROL == 8
LCD_HOME == 2
LCD_SETDDRAMADDR == 128
LCD_SETCGRAMADDR == 64

LCD_DISPLAYON == 4
LCD_CURSORON == 2
LCD_CURSOROFF == 0
LCD_BLINKON == 1
LCD_BLINKOFF == 0

LCD_DISPLAYMOVE == 8
LCD_MOVELEFT == 0
LCD_MOVERIGHT == 4

E_PULSE == 500
E_DELAY == 500
HOMEDELAY == 50000

---------------------------------------------------------------------------
(* Bounds of the model.                                                    *)

MaxCols == 1        \* column counts 1..MaxCols, and the demo's 16
MaxTextLen == 2     \* longest text passed to message
MaxSlot == 16       \* largest location passed to create_char
MaxPatLen == 9      \* longest pattern passed to create_char
MaxColArg == 3      \* cols 0..MaxColArg passed to set_cursor, and the demo's last two
MaxIndex == 4       \* largest row / line index passed to set_cursor, set_line
MaxCalls == 3       \* longest recorded call trace (SpecControl)

DemoCols == 16      \* src/demo.py:12

---------------------------------------------------------------------------
(* Python's integer operators on non-negative ints.                        *)

RECURSIVE BitAnd(_, _)
BitAnd(a, b) ==
    IF a = 0 \/ b = 0 THEN 0
    ELSE (a % 2) * (b % 2) + 2 * BitAnd(a \div 2, b \div 2)

RECURSIVE BitOr(_, _)
BitOr(a, b) ==
    IF a = 0 THEN b
    ELSE IF b = 0 THEN a
    ELSE (IF a % 2 = 1 \/ b % 2 = 1 THEN 1 ELSE 0) + 2 * BitOr(a \div 2, b \div 2)

\* x & ~m for non-negative x: the bits of m cleared in x
BitClear(x, m) == x - BitAnd(x, m)

\* t[i] on a tuple: a negative index counts from the end; anything else
\* outside the tuple raises IndexError
IndexOK(t, i) == (i >= 0 /\ i < Len(t)) \/ (i < 0 /\ i + Len(t) >= 0)
Item(t, i) == IF i >= 0 THEN t[i + 1] ELSE t[i + Len(t) + 1]

\* ord(c) for the characters the model's texts are made of
Ord(c) == CASE c = "A" -> 65 [] c = "B" -> 66 [] c = " " -> 32

RECURSIVE Flatten(_)
Flatten(ss) == IF ss = <<>> THEN <<>> ELSE Head(ss) \o Flatten(Tail(ss))

---------------------------------------------------------------------------
(* lcd_byte: the pin writes and sleeps of one byte transfer.               *)

\* DataLines with the masks handed to the lines in the opposite order
DataLines_Reversed(bits, m4, m5, m6, m7) ==
    << <<"d4", 0>>, <<"d5", 0>>, <<"d6", 0>>, <<"d7", 0>> >>
    \o (IF BitAnd(bits, m7) = m7 THEN << <<"d4", 1>> >> ELSE <<>>)
    \o (IF BitAnd(bits, m6) = m6 THEN << <<"d5", 1>> >> ELSE <<>>)
    \o (IF BitAnd(bits, m5) = m5 THEN << <<"d6", 1>> >> ELSE <<>>)
    \o (IF BitAnd(bits, m4) = m4 THEN << <<"d7", 1>> >> ELSE <<>>)
\* the four data lines cleared, then those whose mask bit is set in bits raised
DataLines(bits, m4, m5, m6, m7) ==
    << <<"d4", 0>>, <<"d5", 0>>, <<"d6", 0>>, <<"d7", 0>> >>
    \o (IF BitAnd(bits, m4) = m4 THEN << <<"d4", 1>> >> ELSE <<>>)
    \o (IF BitAnd(bits, m5) = m5 THEN << <<"d5", 1>> >> ELSE <<>>)
    \o (IF BitAnd(bits, m6) = m6 THEN << <<"d6", 1>> >> ELSE <<>>)
    \o (IF BitAnd(bits, m7) = m7 THEN << <<"d7", 1>> >> ELSE <<>>)

\* the enable pulse that leaves the line high
ToggleEnable_LeftHigh ==
    << <<"sleep", E_DELAY>>, <<"en", 1>>, <<"sleep", E_PULSE>>, <<"sleep", E_DELAY>> >>
\* the enable pulse without the setup delay before the rising edge
ToggleEnable_NoSetup ==
    << <<"en", 1>>, <<"sleep", E_PULSE>>, <<"en", 0>>, <<"sleep", E_DELAY>> >>
ToggleEnable ==
    << <<"sleep", E_DELAY>>, <<"en", 1>>, <<"sleep", E_PULSE>>,
       <<"en", 0>>, <<"sleep", E_DELAY>> >>

\* lcd_byte sending the low nibble before the high nibble
lcd_byte_LowFirst(bits, mode) ==
    << <<"rs", mode>>, <<"sleep", E_DELAY>> >>
    \o DataLines(bits, 1, 2, 4, 8) \o ToggleEnable
    \o DataLines(bits, 16, 32, 64, 128) \o ToggleEnable
lcd_byte(bits, mode) ==
    << <<"rs", mode>>, <<"sleep", E_DELAY>> >>
    \o DataLines(bits, 16, 32, 64, 128) \o ToggleEnable
    \o DataLines(bits, 1, 2, 4, 8) \o ToggleEnable

\* the lines evs writes, each with the level of the last write to it
LastWrite(evs) ==
    LET written == {evs[i][1] : i \in 1..Len(evs)} \ {"sleep"}
    IN  [n \in written |->
            LET ws == SelectSeq(evs, LAMBDA e : e[1] = n) IN ws[Len(ws)][2]]

\* lcd_byte and the levels it leaves, tabulated over the bytes and modes
lcd_byte_events == [b \in 0..255, m \in {0, 1} |-> lcd_byte(b, m)]
lcd_byte_writes == [b \in 0..255, m \in {0, 1} |-> LastWrite(lcd_byte(b, m))]

---------------------------------------------------------------------------
(* A method body is the sequence of calls it makes: <<"lcd_byte", bits,    *)
(* mode>> or <<"sleep", duration, 0>>.                                     *)

Xfer(bits, mode) == <<"lcd_byte", bits, mode>>
Sleep(d) == <<"sleep", d, 0>>

IsXfer(c) == c[1] = "lcd_byte"
XferOf(c) == <<c[2], c[3]>>
EventsOf(c) ==
    IF c[1] = "lcd_byte"
    THEN IF <<c[2], c[3]>> \in DOMAIN lcd_byte_events
         THEN lcd_byte_events[c[2], c[3]] ELSE lcd_byte(c[2], c[3])
    ELSE << <<"sleep", c[2]>> >>
WritesOf(c) ==
    IF c[1] = "lcd_byte"
    THEN IF <<c[2], c[3]>> \in DOMAIN lcd_byte_writes
         THEN lcd_byte_writes[c[2], c[3]] ELSE LastWrite(lcd_byte(c[2], c[3]))
    ELSE << >>

Sent(calls) == LET xs == SelectSeq(calls, IsXfer) IN [i \in 1..Len(xs) |-> XferOf(xs[i])]
Events(calls) == Flatten([i \in 1..Len(calls) |-> EventsOf(calls[i])])

\* clear sleeping before the command instead of after it
clear_calls_SleepFirst == << Sleep(HOMEDELAY), Xfer(LCD_CLEAR, LCD_CMD) >>
clear_calls == << Xfer(LCD_CLEAR, LCD_CMD), Sleep(HOMEDELAY) >>
home_calls == << Xfer(LCD_HOME, LCD_CMD), Sleep(HOMEDELAY) >>

\* the initialisation with display-control sent before function-set
init_calls_Reordered ==
    << Xfer(51, LCD_CMD), Xfer(50, LCD_CMD), Xfer(12, LCD_CMD),
       Xfer(40, LCD_CMD), Xfer(6, LCD_CMD) >> \o clear_calls
init_calls ==
    << Xfer(51, LCD_CMD), Xfer(50, LCD_CMD), Xfer(40, LCD_CMD),
       Xfer(12, LCD_CMD), Xfer(6, LCD_CMD) >> \o clear_calls

\* the level of every line after calls: a line keeps its level until written
RECURSIVE Drive(_, _)
Drive(p, calls) ==
    IF calls = <<>> THEN p ELSE Drive(WritesOf(Head(calls)) @@ p, Tail(calls))

\* a transfer the controller takes as its display-control command: Command
\* mode, LCD_DISPLAYCONTROL the highest bit set, the three flags below it
IsControl(x) ==
    /\ x[2] = LCD_CMD
    /\ x[1] >= LCD_DISPLAYCONTROL
    /\ x[1] < 2 * LCD_DISPLAYCONTROL
\* the last display-control command once the transfers xs have followed prev
LastControl(prev, xs) ==
    LET cs == SelectSeq(xs, IsControl)
    IN  IF cs = <<>> THEN prev ELSE cs[Len(cs)][1]

\* what a call leaves behind
Do(name, args, calls, error, dc) ==
    /\ lastOp' = [name |-> name, args |-> args]
    /\ sent' = Sent(calls)
    /\ events' = Events(calls)
    /\ pins' = Drive(pins, calls)
    /\ err' = error
    /\ displaycontrol' = dc
    /\ lastControl' = LastControl(lastControl, Sent(calls))
    /\ enBefore' = pins.en

---------------------------------------------------------------------------
(* The bodies of the methods: the calls a method makes, in order, the      *)
(* exception it ends with, and the value it leaves in self.displaycontrol. *)

\* a toggle that rewrites the whole mask instead of one flag
SetFlagOnly(dc, flag, on) == IF on THEN flag ELSE 0
\* the display-control toggles: one flag of self.displaycontrol set or cleared
SetFlag(dc, flag, on) == IF on THEN BitOr(dc, flag) ELSE BitClear(dc, flag)
\* the control command carrying the flags without the command bit
control_calls_NoCommand(dc) == << Xfer(dc, LCD_CMD) >>
control_calls(dc) == << Xfer(BitOr(LCD_DISPLAYCONTROL, dc), LCD_CMD) >>

\* create_char without the mask on the location
create_char_NoMask(location, pattern) ==
    LET loc == location
        n == IF Len(pattern) < 8 THEN Len(pattern) ELSE 8
    IN  [calls |-> << Xfer(BitOr(LCD_SETCGRAMADDR, loc * 8), LCD_CMD) >>
                   \o [i \in 1..n |-> Xfer(pattern[i], LCD_CHR)],
         error |-> IF Len(pattern) < 8 THEN "IndexError" ELSE "none"]
\* create_char writing the pattern last byte first
create_char_Reversed(location, pattern) ==
    LET loc == BitAnd(location, 7)
        n == IF Len(pattern) < 8 THEN Len(pattern) ELSE 8
    IN  [calls |-> << Xfer(BitOr(LCD_SETCGRAMADDR, loc * 8), LCD_CMD) >>
                   \o [i \in 1..n |-> Xfer(pattern[n + 1 - i], LCD_CHR)],
         error |-> IF Len(pattern) < 8 THEN "IndexError" ELSE "none"]
\* pattern[i] for i = 0..7; the loop stops with IndexError at the first index
\* the pattern does not have
create_char_body(location, pattern) ==
    LET loc == BitAnd(location, 7)
        n == IF Len(pattern) < 8 THEN Len(pattern) ELSE 8
    IN  [calls |-> << Xfer(BitOr(LCD_SETCGRAMADDR, loc * 8), LCD_CMD) >>
                   \o [i \in 1..n |-> Xfer(pattern[i], LCD_CHR)],
         error |-> IF Len(pattern) < 8 THEN "IndexError" ELSE "none"]

\* str.format with a width: a text at least as long as the width is unchanged
Spaces(n) == [i \in 1..n |-> " "]
Pad(text, width) == IF width > Len(text) THEN width - Len(text) ELSE 0
\* '{0:<{1}}' padding on the left instead of the right
format_left_Mirrored(text, width) == Spaces(Pad(text, width)) \o text
format_left(text, width) == text \o Spaces(Pad(text, width))
\* '{0:^{1}}' giving the odd space to the left
format_center_LeftBias(text, width) ==
    LET right == Pad(text, width) \div 2
    IN  Spaces(Pad(text, width) - right) \o text \o Spaces(right)
format_center(text, width) ==
    LET left == Pad(text, width) \div 2
    IN  Spaces(left) \o text \o Spaces(Pad(text, width) - left)
format_right(text, width) == Spaces(Pad(text, width)) \o text

message_calls(text, align, width) ==
    LET m == IF align = 1 THEN format_left(text, width)
             ELSE IF align = 2 THEN format_center(text, width)
             ELSE IF align = 3 THEN format_right(text, width)
             ELSE text
    IN  [i \in 1..Len(m) |-> Xfer(Ord(m[i]), LCD_CHR)]

\* the row clamp that also catches row = rows
ClampRow_Inclusive(row, nrows) == IF row >= nrows THEN nrows - 1 ELSE row
ClampRow(row, nrows) == IF row > nrows THEN nrows - 1 ELSE row

\* set_cursor rejecting a column past a 16-column display
set_cursor_body_ColChecked(col, row, nrows) ==
    IF col >= DemoCols \/ ~IndexOK(LCD_ROW_OFFSETS, ClampRow(row, nrows))
    THEN [calls |-> <<>>, error |-> "IndexError"]
    ELSE [calls |-> << Xfer(BitOr(LCD_SETDDRAMADDR,
                                  col + Item(LCD_ROW_OFFSETS, ClampRow(row, nrows))),
                            LCD_CMD) >>,
          error |-> "none"]

set_cursor_body(col, row, nrows) ==
    LET r == ClampRow(row, nrows)
    IN  IF IndexOK(LCD_ROW_OFFSETS, r)
        THEN [calls |-> << Xfer(BitOr(LCD_SETDDRAMADDR, col + Item(LCD_ROW_OFFSETS, r)),
                                LCD_CMD) >>,
              error |-> "none"]
        ELSE [calls |-> <<>>, error |-> "IndexError"]

set_line_body(num) ==
    IF IndexOK(LCD_LINES, num)
    THEN [calls |-> << Xfer(Item(LCD_LINES, num), LCD_CMD) >>, error |-> "none"]
    ELSE [calls |-> <<>>, error |-> "IndexError"]

\* move_left without the shift opcode
move_left_calls_NoShift ==
    << Xfer(BitOr(LCD_DISPLAYMOVE, LCD_MOVELEFT), LCD_CMD) >>
move_left_calls ==
    << Xfer(BitOr(BitOr(LCD_CURSORSHIFT, LCD_DISPLAYMOVE), LCD_MOVELEFT), LCD_CMD) >>
move_right_calls ==
    << Xfer(BitOr(BitOr(LCD_CURSORSHIFT, LCD_DISPLAYMOVE), LCD_MOVERIGHT), LCD_CMD) >>

---------------------------------------------------------------------------
(* Arguments the model draws.                                              *)

Levels == {0, 1}
PinNames == {"rs", "en", "d4", "d5", "d6", "d7"}
ColCounts == (1..MaxCols) \cup {DemoCols}
RowCounts == 1..Len(LCD_ROW_OFFSETS)
Bytes == 0..255
Modes == {LCD_CMD, LCD_CHR}

Alphabet == {"A", "B"}
Texts == UNION {[1..n -> Alphabet] : n \in 0..MaxTextLen}
Aligns == 0..4

\* the four glyphs of the demo; shorter and longer patterns repeat their bytes
DemoPatterns ==
    << <<7, 12, 24, 16, 22, 22, 22, 16>>, <<28, 6, 3, 1, 13, 13, 13, 1>>,
       <<16, 20, 20, 23, 19, 24, 12, 7>>, <<1, 1, 5, 29, 25, 3, 6, 28>> >>
Pattern(k, n) == [i \in 1..n |-> DemoPatterns[k][((i - 1) % 8) + 1]]
Patterns ==
    {Pattern(1, n) : n \in 0..MaxPatLen} \cup {Pattern(k, 8) : k \in 1..Len(DemoPatterns)}
Slots == 0..MaxSlot
ColArgs == (0..MaxColArg) \cup {DemoCols - 1, DemoCols}
RowArgs == (-1)..MaxIndex
LineArgs == (-MaxIndex)..MaxIndex

Init ==
    /\ constructed = FALSE
    /\ cols = 0
    /\ rows = 0
    /\ displaycontrol = 0
    /\ pins \in [PinNames -> Levels]
    /\ lastOp = [name |-> "none", args |-> <<>>]
    /\ sent = <<>>
    /\ events = <<>>
    /\ err = "none"
    /\ trace = <<>>
    /\ lastControl = -1
    /\ enBefore = pins.en

\* no call is in progress: the previous one has returned
Idle == lastOp.name = "none"

\* CharLCD(cols=c, rows=r)
Construct(c, r) ==
    /\ ~constructed
    /\ constructed' = TRUE
    /\ cols' = c
    /\ rows' = r
    /\ Do("__init__", <<c, r>>, init_calls, "none",
          BitOr(BitOr(LCD_DISPLAYON, LCD_CURSOROFF), LCD_BLINKOFF))

clear ==
    /\ constructed /\ Idle
    /\ Do("clear", <<>>, clear_calls, "none", displaycontrol)
    /\ UNCHANGED <<constructed, cols, rows>>

\* home also putting displaycontrol back to its initial value
home_ResetsControl ==
    /\ constructed /\ Idle
    /\ Do("home", <<>>, home_calls, "none", LCD_DISPLAYON)
    /\ UNCHANGED <<constructed, cols, rows>>
home ==
    /\ constructed /\ Idle
    /\ Do("home", <<>>, home_calls, "none", displaycontrol)
    /\ UNCHANGED <<constructed, cols, rows>>

create_char(location, pattern) ==
    /\ constructed /\ Idle
    /\ LET b == create_char_body(location, pattern)
       IN  Do("create_char", <<location, pattern>>, b.calls, b.error, displaycontrol)
    /\ UNCHANGED <<constructed, cols, rows>>

enable(on) ==
    /\ constructed /\ Idle
    /\ LET dc == SetFlag(displaycontrol, LCD_DISPLAYON, on)
       IN  Do("enable", <<on>>, control_calls(dc), "none", dc)
    /\ UNCHANGED <<constructed, cols, rows>>

show_blink(show) ==
    /\ constructed /\ Idle
    /\ LET dc == SetFlag(displaycontrol, LCD_BLINKON, show)
       IN  Do("show_blink", <<show>>, control_calls(dc), "none", dc)
    /\ UNCHANGED <<constructed, cols, rows>>

show_underline(show) ==
    /\ constructed /\ Idle
    /\ LET dc == SetFlag(displaycontrol, LCD_CURSORON, show)
       IN  Do("show_underline", <<show>>, control_calls(dc), "none", dc)
    /\ UNCHANGED <<constructed, cols, rows>>

message(text, align) ==
    /\ constructed /\ Idle
    /\ Do("message", <<text, align>>, message_calls(text, align, cols), "none",
          displaycontrol)
    /\ UNCHANGED <<constructed, cols, rows>>

move_left ==
    /\ constructed /\ Idle
    /\ Do("move_left", <<>>, move_left_calls, "none", displaycontrol)
    /\ UNCHANGED <<constructed, cols, rows>>

move_right ==
    /\ constructed /\ Idle
    /\ Do("move_right", <<>>, move_right_calls, "none", displaycontrol)
    /\ UNCHANGED <<constructed, cols, rows>>

set_cursor(col, row) ==
    /\ constructed /\ Idle
    /\ LET b == set_cursor_body(col, row, rows)
       IN  Do("set_cursor", <<col, row>>, b.calls, b.error, displaycontrol)
    /\ UNCHANGED <<constructed, cols, rows>>

set_line(num) ==
    /\ constructed /\ Idle
    /\ LET b == set_line_body(num)
       IN  Do("set_line", <<num>>, b.calls, b.error, displaycontrol)
    /\ UNCHANGED <<constructed, cols, rows>>

\* lcd_byte called on its own
Transfer(bits, mode) ==
    /\ constructed /\ Idle
    /\ Do("lcd_byte", <<bits, mode>>, << Xfer(bits, mode) >>, "none", displaycontrol)
    /\ UNCHANGED <<constructed, cols, rows>>

\* the call returns to its caller, which goes on to its next call; what was
\* recorded of the call is dropped
Return ==
    /\ ~Idle
    /\ lastOp' = [name |-> "none", args |-> <<>>]
    /\ sent' = <<>>
    /\ events' = <<>>
    /\ err' = "none"
    /\ enBefore' = pins.en
    /\ UNCHANGED <<constructed, cols, rows, displaycontrol, pins, trace, lastControl>>

---------------------------------------------------------------------------
(* Spec: the public operations, called in any order with any arguments.    *)

Next ==
    \/ (\E c \in ColCounts, r \in RowCounts : Construct(c, r)) /\ UNCHANGED trace
    \/ clear /\ UNCHANGED trace
    \/ home /\ UNCHANGED trace
    \/ (\E l \in Slots, p \in Patterns : create_char(l, p)) /\ UNCHANGED trace
    \/ (\E on \in BOOLEAN : enable(on)) /\ UNCHANGED trace
    \/ (\E on \in BOOLEAN : show_blink(on)) /\ UNCHANGED trace
    \/ (\E on \in BOOLEAN : show_underline(on)) /\ UNCHANGED trace
    \/ (\E t \in Texts, a \in Aligns : message(t, a)) /\ UNCHANGED trace
    \/ move_left /\ UNCHANGED trace
    \/ move_right /\ UNCHANGED trace
    \/ (\E c \in ColArgs, r \in RowArgs : set_cursor(c, r)) /\ UNCHANGED trace
    \/ (\E n \in LineArgs : set_line(n)) /\ UNCHANGED trace
    \/ Return

Spec == Init /\ [][Next]_vars

(* SpecPulse: the pulse engine alone, lcd_byte called with every byte and  *)
(* mode.                                                                   *)

NextPulse ==
    \/ (\E c \in ColCounts, r \in RowCounts : Construct(c, r)) /\ UNCHANGED trace
    \/ (\E b \in Bytes, m \in Modes : Transfer(b, m)) /\ UNCHANGED trace
    \/ Return

SpecPulse == Init /\ [][NextPulse]_vars

(* SpecControl: the display-control operations, with the calls made since  *)
(* construction recorded in trace (at most MaxCalls of them).              *)

Record == trace' = Append(trace, [op |-> lastOp', sent |-> sent'])

NextControl ==
    \/ (\E c \in ColCounts, r \in RowCounts : Construct(c, r)) /\ UNCHANGED trace
    \/ Len(trace) < MaxCalls /\ (\E on \in BOOLEAN : enable(on)) /\ Record
    \/ Len(trace) < MaxCalls /\ (\E on \in BOOLEAN : show_blink(on)) /\ Record
    \/ Len(trace) < MaxCalls /\ (\E on \in BOOLEAN : show_underline(on)) /\ Record
    \/ Len(trace) < MaxCalls /\ clear /\ Record
    \/ Len(trace) < MaxCalls /\ home /\ Record
    \/ Return

SpecControl == Init /\ [][NextControl]_vars

---------------------------------------------------------------------------
(* Reading the record of a call.                                           *)

DataPins == <<"d4", "d5", "d6", "d7">>
IsData(e) == e[1] \in {"d4", "d5", "d6", "d7"}
Bit(x, k) == (x \div (2 ^ k)) % 2
Largest(S) == CHOOSE i \in S : \A j \in S : j <= i
Smallest(S) == CHOOSE i \in S : \A j \in S : i <= j

\* the level of line n after the first i events of evs, -1 while unwritten
LevelAt(evs, n, i) ==
    LET w == {j \in 1..i : evs[j][1] = n}
    IN  IF w = {} THEN -1 ELSE evs[Largest(w)][2]
\* the nibble on the data lines after the first i events of evs
NibbleAt(evs, i) ==
    LevelAt(evs, "d4", i) + 2 * LevelAt(evs, "d5", i)
    + 4 * LevelAt(evs, "d6", i) + 8 * LevelAt(evs, "d7", i)
Positions(evs, e) == {i \in 1..Len(evs) : evs[i] = e}

\* evs with every run of data-line writes replaced by one <<"data", nibble>>,
\* the nibble being the one on the lines at the end of the run
Collapse(evs) ==
    LET n == Len(evs)
        ends == SelectSeq([i \in 1..n |-> i],
                          LAMBDA i : ~IsData(evs[i]) \/ i = n \/ ~IsData(evs[i + 1]))
    IN  [k \in 1..Len(ends) |->
            IF IsData(evs[ends[k]]) THEN <<"data", NibbleAt(evs, ends[k])>>
            ELSE evs[ends[k]]]

Called(name) == lastOp.name = name

---------------------------------------------------------------------------
(* C1: lcd_byte(b, m), for every byte b and mode m, raises and lowers the  *)
(* enable line exactly twice, in the order high, low, high, low; during    *)
(* the first pulse the data lines d4..d7 carry bits 4..7 of b and during   *)
(* the second bits 0..3 of b, the least significant bit on d4.             *)
C1_TwoLatches ==
    Called("lcd_byte") =>
        LET b == lastOp.args[1]
            up == Positions(events, <<"en", 1>>)
            down == Positions(events, <<"en", 0>>)
        IN  /\ Cardinality(up) = 2
            /\ Cardinality(down) = 2
            /\ Smallest(up) < Smallest(down)
            /\ Smallest(down) < Largest(up)
            /\ Largest(up) < Largest(down)
            /\ \A i \in Smallest(up)..Smallest(down) :
                   /\ NibbleAt(events, i) = (b \div 16) % 16
                   /\ \A k \in 0..3 : LevelAt(events, DataPins[k + 1], i) = Bit(b, 4 + k)
            /\ \A i \in Largest(up)..Largest(down) :
                   /\ NibbleAt(events, i) = b % 16
                   /\ \A k \in 0..3 : LevelAt(events, DataPins[k + 1], i) = Bit(b, k)

C1_Witness ==
    /\ Called("lcd_byte")
    /\ lastOp.args = <<165, LCD_CHR>>
    /\ Cardinality(Positions(events, <<"en", 1>>)) = 2
    /\ NibbleAt(events, Smallest(Positions(events, <<"en", 0>>))) = 10
    /\ NibbleAt(events, Len(events)) = 5

(* C2: the events of one lcd_byte(b, m) are, in this order and with        *)
(* nothing else between them: rs written with m, the setup delay, the data *)
(* lines driven to the high nibble, setup delay, enable high, pulse delay, *)
(* enable low, setup delay, the data lines driven to the low nibble, setup *)
(* delay, enable high, pulse delay, enable low, setup delay.               *)
C2_StrictOrder ==
    Called("lcd_byte") =>
        LET b == lastOp.args[1]
            m == lastOp.args[2]
        IN  Collapse(events) =
              << <<"rs", m>>, <<"sleep", 500>>,
                 <<"data", (b \div 16) % 16>>,
                 <<"sleep", 500>>, <<"en", 1>>, <<"sleep", 500>>, <<"en", 0>>, <<"sleep", 500>>,
                 <<"data", b % 16>>,
                 <<"sleep", 500>>, <<"en", 1>>, <<"sleep", 500>>, <<"en", 0>>, <<"sleep", 500>> >>

C2_Witness ==
    /\ Called("lcd_byte")
    /\ lastOp.args = <<60, LCD_CMD>>
    /\ Len(Collapse(events)) = 14
    /\ Collapse(events)[3] = <<"data", 3>>
    /\ Collapse(events)[9] = <<"data", 12>>
    /\ events[1] = <<"rs", 0>>

(* C3, as claimed: construction transmits seven command bytes, three that  *)
(* force 4-bit mode and then 0x28, 0x0C, 0x06, 0x01.                       *)
C3_AsClaimed ==
    Called("__init__") =>
        /\ Len(sent) = 7
        /\ \A i \in 1..7 : sent[i][2] = LCD_CMD
        /\ <<sent[4][1], sent[5][1], sent[6][1], sent[7][1]>> = <<40, 12, 6, 1>>

(* C3, amended: construction transmits exactly six bytes, all in Command   *)
(* mode and in this order: the two bytes 0x33, 0x32 that force 4-bit mode, *)
(* function-set 0x28, display-control on 0x0C, entry-mode 0x06, clear      *)
(* 0x01; the long settle delay follows the clear and is the last thing     *)
(* construction does.                                                      *)
C3_InitSequence ==
    Called("__init__") =>
        /\ sent = << <<51, 0>>, <<50, 0>>, <<40, 0>>, <<12, 0>>, <<6, 0>>, <<1, 0>> >>
        /\ Cardinality(Positions(events, <<"rs", 0>>)) = 6
        /\ Positions(events, <<"rs", 1>>) = {}
        /\ Positions(events, <<"sleep", 50000>>) = {Len(events)}
        /\ err = "none"

C3_Witness ==
    /\ Called("__init__")
    /\ Len(sent) = 6
    /\ sent[3] = <<40, LCD_CMD>>
    /\ events[Len(events)] = <<"sleep", HOMEDELAY>>
    /\ displaycontrol = 4

(* C4: right after construction displaycontrol is display-on alone (4);    *)
(* show_blink(True) followed by show_underline(True) as the first two      *)
(* calls sends one display-control command each, 0x0D and then 0x0F, the   *)
(* second carrying the on, cursor and blink bits together.                 *)
C4_BlinkThenUnderline ==
    /\ (constructed /\ trace = <<>>) => displaycontrol = 4
    /\ (Len(trace) >= 1 /\ trace[1].op = [name |-> "show_blink", args |-> <<TRUE>>]) =>
           trace[1].sent = << <<13, LCD_CMD>> >>
    /\ (/\ Len(trace) >= 2
        /\ trace[1].op = [name |-> "show_blink", args |-> <<TRUE>>]
        /\ trace[2].op = [name |-> "show_underline", args |-> <<TRUE>>]) =>
           /\ trace[2].sent = << <<15, LCD_CMD>> >>
           /\ Len(trace) = 2 => displaycontrol = 7

C4_Witness ==
    /\ Len(trace) = 2
    /\ trace[1].op = [name |-> "show_blink", args |-> <<TRUE>>]
    /\ trace[2].op = [name |-> "show_underline", args |-> <<TRUE>>]
    /\ trace[2].sent = << <<15, LCD_CMD>> >>
    /\ displaycontrol = 7

(* C5: a call of enable(on), show_underline(on) or show_blink(on) sets its *)
(* own flag of displaycontrol (4, 2, 1) to on, leaves the other two flags  *)
(* as they were, and sends one Command-mode byte: 8 plus the three flags.  *)
FlagOf(name) ==
    CASE name = "enable" -> 2 [] name = "show_underline" -> 1 [] name = "show_blink" -> 0
C5_OneFlag ==
    [][(Idle /\ lastOp'.name \in {"enable", "show_underline", "show_blink"}) =>
          LET k == FlagOf(lastOp'.name)
          IN  /\ displaycontrol' \in 0..7
              /\ Bit(displaycontrol', k) = (IF lastOp'.args[1] THEN 1 ELSE 0)
              /\ \A j \in 0..2 \ {k} : Bit(displaycontrol', j) = Bit(displaycontrol, j)
              /\ sent' = << <<8 + displaycontrol', LCD_CMD>> >>]_vars

C5_Witness ==
    /\ Called("show_underline")
    /\ lastOp.args = <<FALSE>>
    /\ displaycontrol = 5
    /\ sent = << <<13, LCD_CMD>> >>

(* C6, as claimed: set_cursor(col, row) with row >= rows raises nothing    *)
(* and sends what set_cursor(col, rows - 1) sends.                         *)
C6_AsClaimed ==
    (Called("set_cursor") /\ lastOp.args[2] >= rows) =>
        /\ err = "none"
        /\ sent = Sent(set_cursor_body(lastOp.args[1], rows - 1, rows).calls)

(* C7: set_cursor(col, row) with 0 <= row < rows and 0 <= col < cols sends *)
(* one Command-mode byte, 0x80 + col + the row's entry of (0x00, 0x40,     *)
(* 0x14, 0x54).                                                            *)
C7_CursorAddress ==
    (/\ Called("set_cursor")
     /\ lastOp.args[1] \in 0..(cols - 1)
     /\ lastOp.args[2] \in 0..(rows - 1)) =>
        /\ err = "none"
        /\ sent = << <<128 + lastOp.args[1] + <<0, 64, 20, 84>>[lastOp.args[2] + 1],
                       LCD_CMD>> >>

C7_Witness ==
    /\ Called("set_cursor")
    /\ cols = 16 /\ rows = 4
    /\ lastOp.args = <<15, 2>>
    /\ sent = << <<163, LCD_CMD>> >>

(* C8: create_char(slot, pattern) with a pattern of at least 8 bytes sends *)
(* nine transfers: the Command-mode byte 0x40 + 8 * (slot mod 8), then     *)
(* pattern[0]..pattern[7] in Character mode, in index order.               *)
C8_NineTransfers ==
    (Called("create_char") /\ Len(lastOp.args[2]) >= 8) =>
        /\ Len(sent) = 9
        /\ sent[1] = <<64 + 8 * (lastOp.args[1] % 8), LCD_CMD>>
        /\ \A i \in 1..8 : sent[i + 1] = <<lastOp.args[2][i], LCD_CHR>>
        /\ Cardinality(Positions(events, <<"rs", 0>>)) = 1
        /\ Cardinality(Positions(events, <<"rs", 1>>)) = 8
        /\ err = "none"

C8_Witness ==
    /\ Called("create_char")
    /\ lastOp.args = <<3, <<1, 1, 5, 29, 25, 3, 6, 28>> >>
    /\ Len(sent) = 9
    /\ sent[1] = <<88, LCD_CMD>>
    /\ sent[4] = <<5, LCD_CHR>>

(* C9: create_char(s, p) sends what create_char(s mod 8, p) sends and      *)
(* ends as it ends, for every location s >= 0.                             *)
C9_SlotWraps ==
    Called("create_char") =>
        LET wrapped == create_char_body(lastOp.args[1] % 8, lastOp.args[2])
        IN  /\ sent = Sent(wrapped.calls)
            /\ err = wrapped.error

C9_Witness ==
    /\ Called("create_char")
    /\ lastOp.args[1] = 15
    /\ Len(lastOp.args[2]) = 8
    /\ sent[1] = <<120, LCD_CMD>>
    /\ err = "none"

(* C10: message(text, 1) with Len(text) <= cols sends cols Character-mode  *)
(* bytes, the characters of text and then spaces; message(text, 3) sends   *)
(* cols Character-mode bytes, spaces and then the characters of text.      *)
C10_LeftRight ==
    (Called("message") /\ lastOp.args[2] \in {1, 3} /\ Len(lastOp.args[1]) <= cols) =>
        LET text == lastOp.args[1]
            n == Len(text)
        IN  /\ Len(sent) = cols
            /\ err = "none"
            /\ lastOp.args[2] = 1 =>
                 \A i \in 1..cols :
                     sent[i] = <<IF i <= n THEN Ord(text[i]) ELSE 32, LCD_CHR>>
            /\ lastOp.args[2] = 3 =>
                 \A i \in 1..cols :
                     sent[i] = <<IF i <= cols - n THEN 32 ELSE Ord(text[i - (cols - n)]),
                                 LCD_CHR>>

C10_Witness ==
    /\ Called("message")
    /\ cols = 16
    /\ lastOp.args = << <<"A", "B">>, 3 >>
    /\ Len(sent) = 16
    /\ sent[14] = <<32, LCD_CHR>>
    /\ sent[15] = <<65, LCD_CHR>>
    /\ sent[16] = <<66, LCD_CHR>>

(* C11: message(text, 2) with n = Len(text) <= cols sends cols             *)
(* Character-mode bytes: (cols - n) div 2 spaces, the text, and the        *)
(* remaining spaces, so that an odd remainder leaves the extra space on    *)
(* the right.                                                              *)
C11_Center ==
    (Called("message") /\ lastOp.args[2] = 2 /\ Len(lastOp.args[1]) <= cols) =>
        LET text == lastOp.args[1]
            n == Len(text)
            lead == (cols - n) \div 2
        IN  /\ Len(sent) = cols
            /\ err = "none"
            /\ \A i \in 1..cols :
                   sent[i] = <<IF i > lead /\ i <= lead + n THEN Ord(text[i - lead]) ELSE 32,
                               LCD_CHR>>
            /\ cols - (lead + n) >= lead

C11_Witness ==
    /\ Called("message")
    /\ cols = 16
    /\ lastOp.args = << <<"A">>, 2 >>
    /\ Len(sent) = 16
    /\ sent[7] = <<32, LCD_CHR>>
    /\ sent[8] = <<65, LCD_CHR>>
    /\ \A i \in 9..16 : sent[i] = <<32, LCD_CHR>>

(* C12: clear() sends one Command-mode byte 0x01 and home() one            *)
(* Command-mode byte 0x02; the one long settle delay of the call is its    *)
(* last step, after the second enable pulse of the transfer has ended.     *)
C12_SettleAfter ==
    (Called("clear") \/ Called("home")) =>
        /\ sent = << <<IF Called("clear") THEN 1 ELSE 2, LCD_CMD>> >>
        /\ Positions(events, <<"sleep", 50000>>) = {Len(events)}
        /\ Cardinality(Positions(events, <<"en", 0>>)) = 2
        /\ Cardinality(Positions(events, <<"en", 1>>)) = 2
        /\ events[Len(events) - 2] = <<"en", 0>>
        /\ pins.en = 0
        /\ err = "none"

C12_Witness ==
    /\ Called("home")
    /\ sent = << <<2, LCD_CMD>> >>
    /\ events[Len(events)] = <<"sleep", HOMEDELAY>>
    /\ events[1] = <<"rs", 0>>

\* the calls that are not display-control toggles, and no call at all
OtherOps ==
    {"clear", "home", "set_line", "set_cursor", "create_char", "message",
     "move_left", "move_right", "none"}
(* C13: after construction, a call of clear, home, set_line, set_cursor,   *)
(* create_char, message, move_left or move_right, with any arguments and   *)
(* in any state, leaves displaycontrol, cols and rows as they were; so     *)
(* does the return of any call.                                            *)
C13_OnlyToggles ==
    [][(constructed /\ lastOp'.name \in OtherOps) =>
          /\ displaycontrol' = displaycontrol
          /\ cols' = cols
          /\ rows' = rows]_vars

C13_Witness ==
    /\ Called("home")
    /\ displaycontrol = 3
    /\ sent = << <<2, LCD_CMD>> >>

(* C14: when lcd_byte(b, m) has returned, rs is at m, the data lines       *)
(* d4..d7 are at bits 0..3 of b and enable is low; enable fell twice, the  *)
(* first time with the high nibble of b on the data lines and the second   *)
(* time with the low nibble.                                               *)
C14_LinesAfter ==
    Called("lcd_byte") =>
        LET b == lastOp.args[1]
            m == lastOp.args[2]
            falls == Positions(events, <<"en", 0>>)
        IN  /\ pins.rs = m
            /\ pins.en = 0
            /\ \A k \in 0..3 : pins[DataPins[k + 1]] = Bit(b, k)
            /\ Cardinality(falls) = 2
            /\ NibbleAt(events, Smallest(falls)) = b \div 16
            /\ NibbleAt(events, Largest(falls)) = b % 16

C14_Witness ==
    /\ Called("lcd_byte")
    /\ lastOp.args = <<150, LCD_CHR>>
    /\ pins = [rs |-> 1, en |-> 0, d4 |-> 0, d5 |-> 1, d6 |-> 1, d7 |-> 0]

(* C15: for every n in 0..3 and whatever the configured row count,         *)
(* set_line(n) raises nothing and makes exactly one transfer, in Command   *)
(* mode, of entry n of the table (0x80, 0xC0, 0x94, 0xD4).                 *)
C15_LineTable ==
    (Called("set_line") /\ lastOp.args[1] \in 0..3) =>
        /\ err = "none"
        /\ sent = << << <<128, 192, 148, 212>>[lastOp.args[1] + 1], LCD_CMD >> >>

C15_Witness ==
    /\ Called("set_line")
    /\ rows = 1
    /\ lastOp.args = <<2>>
    /\ sent = << <<148, LCD_CMD>> >>

(* C16 as stated: set_line(n) with n outside 0..3 raises an index error    *)
(* and transmits nothing.                                                  *)
C16_AsClaimed ==
    (Called("set_line") /\ lastOp.args[1] \notin 0..3) =>
        /\ err = "IndexError"
        /\ sent = <<>>
        /\ events = <<>>

(* C17 as stated: set_cursor(col, row) with col >= cols raises an index    *)
(* error.                                                                  *)
C17_AsClaimed ==
    (Called("set_cursor") /\ lastOp.args[1] >= cols) => err = "IndexError"

(* C17: the column is not bounds-checked.  set_cursor(col, row) with       *)
(* col >= cols and row in 0..rows-1 raises nothing and makes exactly one   *)
(* transfer, in Command mode, of 0x80 | (col + row offset of row).         *)
C17_ColumnUnchecked ==
    (/\ Called("set_cursor")
     /\ lastOp.args[1] >= cols
     /\ lastOp.args[2] \in 0..(rows - 1)) =>
        /\ err = "none"
        /\ sent = << << BitOr(128, lastOp.args[1]
                                   + <<0, 64, 20, 84>>[lastOp.args[2] + 1]),
                        LCD_CMD >> >>

C17_Witness ==
    /\ Called("set_cursor")
    /\ cols = 16
    /\ rows = 2
    /\ lastOp.args = <<16, 1>>
    /\ err = "none"
    /\ sent = << <<208, LCD_CMD>> >>

(* C18 as stated: create_char(slot, pattern) with fewer than 8 pattern     *)
(* bytes raises an index error and has transmitted nothing of its          *)
(* command/pattern sequence.                                               *)
C18_AsClaimed ==
    (Called("create_char") /\ Len(lastOp.args[2]) < 8) =>
        /\ err = "IndexError"
        /\ sent = <<>>
        /\ events = <<>>

\* the calls that send the display-control command
ControlOps == {"__init__", "enable", "show_underline", "show_blink"}

(* C19: once constructed, and after any sequence of public operations with *)
(* any arguments, self.displaycontrol is the low three bits of the most    *)
(* recent Command-mode byte in 0x08..0x0F sent to the controller; and a    *)
(* call other than __init__, enable, show_underline and show_blink sends   *)
(* no Command-mode byte in 0x08..0x0F.                                     *)
C19_ShadowState ==
    /\ constructed =>
          /\ lastControl \in 8..15
          /\ displaycontrol = lastControl % 8
    /\ lastOp.name \notin ControlOps =>
          \A i \in 1..Len(sent) : ~(sent[i][2] = 0 /\ sent[i][1] \in 8..15)

C19_Witness ==
    /\ Called("move_left")
    /\ displaycontrol = 7
    /\ lastControl = 15
    /\ sent = << <<24, LCD_CMD>> >>

\* a pin write, as opposed to a sleep
IsWrite(e) == e[1] # "sleep"

(* C20: in every call, of any public operation in any sequence, the write  *)
(* that follows a raising of the enable line is a write of the enable line *)
(* itself, so rs and d4..d7 are never written between a rising and a       *)
(* falling edge; enable is low whenever a call has returned; and a call    *)
(* other than the constructor begins with enable low, so the writes it     *)
(* makes before its first pulse are made with enable low too.  Only the    *)
(* constructor can begin with enable high.                                 *)
C20_BusStable ==
    /\ constructed => pins.en = 0
    /\ lastOp.name # "none" =>
          LET w == SelectSeq(events, IsWrite)
          IN  /\ \A u \in 1..Len(w) :
                    w[u] = <<"en", 1>> => (u < Len(w) /\ w[u + 1][1] = "en")
              /\ (lastOp.name # "__init__" /\ w # <<>>) => enBefore = 0

C20_Witness ==
    /\ Called("__init__")
    /\ enBefore = 1
    /\ events[1] = <<"rs", LCD_CMD>>
    /\ Cardinality(Positions(events, <<"en", 1>>)) = 12
    /\ pins.en = 0

====
